---- MODULE Spec2Model ----
(***************************************************************************)
(* Model of scripts/config.py: the reconciliation of the live store `.env` *)
(* against `.env.template` (Config.update_env_from_template) and the       *)
(* process-wide settings registry (Singleton, Config.__init__, setters).   *)
(*                                                                         *)
(* Strings are sequences of one-character strings, so that strip(),        *)
(* lower(), int() and the .env line parser are computed, not assumed.      *)
(* A file is a sequence of lines [key, raw]: the text `key=raw`.           *)
(***************************************************************************)
EXTENDS Integers, Sequences, FiniteSets, TLC

(* ------------------------------------------------------------------ *)
(* Bounds of the model                                                 *)
(* ------------------------------------------------------------------ *)

\* threads that may call Config() in the concurrent specification
NThreads == 2
\* registry accesses (calls of Config()) a thread makes
MaxAccess == 2
\* explicit calls of update_env_from_template() after construction
MaxUpdate == 1
\* setter calls
MaxSet == 1

Threads == 1..NThreads
\* every construction allocates a fresh object
MaxObjs == NThreads * MaxAccess
ObjIds == 1..MaxObjs

(* ------------------------------------------------------------------ *)
(* Strings                                                             *)
(* ------------------------------------------------------------------ *)

\* os.getenv / dict.get result for a missing key (Python None); no string
\* equals it, a string being a sequence of one-character strings
Absent == <<"None">>

IsSpace(c) == c = " "

RECURSIVE LStrip(_)
LStrip(s) == IF s = <<>> THEN <<>>
             ELSE IF IsSpace(Head(s)) THEN LStrip(Tail(s)) ELSE s

RECURSIVE RStrip(_)
RStrip(s) == IF s = <<>> THEN <<>>
             ELSE IF IsSpace(s[Len(s)]) THEN RStrip(SubSeq(s, 1, Len(s) - 1)) ELSE s

\* str.strip()
Strip(s) == RStrip(LStrip(s))

LowerChar(c) == IF c = "Y" THEN "y" ELSE IF c = "N" THEN "n" ELSE
                IF c = "T" THEN "t" ELSE c

\* str.lower()
Lower(s) == [i \in 1..Len(s) |-> LowerChar(s[i])]

\* a prompt that also takes a bare Enter for a yes
IsYesOrEmpty(answer) == Lower(answer) \in {<<"y">>, <<>>}

\* answer.lower() == "y"
IsYes(answer) == Lower(answer) = <<"y">>

Digits == {"0", "1", "2", "3", "4", "5", "6", "7", "8", "9"}

DigitVal(c) == CASE c = "0" -> 0 [] c = "1" -> 1 [] c = "2" -> 2 [] c = "3" -> 3
                 [] c = "4" -> 4 [] c = "5" -> 5 [] c = "6" -> 6 [] c = "7" -> 7
                 [] c = "8" -> 8 [] c = "9" -> 9

\* int(str) accepts surrounding whitespace, an optional sign and digits
IntBody(s) == IF s # <<>> /\ Head(s) \in {"+", "-"} THEN Tail(s) ELSE s

IsIntLiteral(s) == LET b == IntBody(Strip(s))
                   IN  b # <<>> /\ \A i \in 1..Len(b) : b[i] \in Digits

RECURSIVE DigitsVal(_)
DigitsVal(b) == IF b = <<>> THEN 0
                ELSE 10 * DigitsVal(SubSeq(b, 1, Len(b) - 1)) + DigitVal(b[Len(b)])

IntOf(s) == LET t == Strip(s)
            IN  IF t # <<>> /\ Head(t) = "-" THEN 0 - DigitsVal(IntBody(t))
                ELSE DigitsVal(IntBody(t))

(* ------------------------------------------------------------------ *)
(* python-dotenv: the line parser, dotenv_values, set_key, unset_key,  *)
(* load_dotenv                                                         *)
(* ------------------------------------------------------------------ *)

\* what the parser makes of a line it rejects (the binding has no key)
Invalid == <<"Invalid">>

\* index of the first "'" of s at or after position i, 0 if none
RECURSIVE QuoteAt(_, _)
QuoteAt(s, i) == IF i > Len(s) THEN 0
                 ELSE IF s[i] = "'" THEN i ELSE QuoteAt(s, i + 1)

\* the value the parser reads from the text after `=`: blanks after the
\* equal sign are skipped; a value opening with a quote runs to the closing
\* quote, after which only blanks may follow; any other value is taken to
\* the end of the line and right-stripped
ParseValue(raw) ==
    LET v == LStrip(raw)
    IN  IF v = <<>> THEN <<>>
        ELSE IF Head(v) = "'"
             THEN LET j == QuoteAt(v, 2)
                  IN  IF j = 0 THEN Invalid
                      ELSE IF LStrip(SubSeq(v, j + 1, Len(v))) # <<>> THEN Invalid
                      ELSE SubSeq(v, 2, j - 1)
             ELSE RStrip(v)

\* whether the parser accepts the line (a rejected line binds no key)
LineValid(line) == ParseValue(line.raw) # Invalid

\* dotenv_values(path): the bindings of a file in file order, as a sequence
\* of [key, value]
RECURSIVE DotenvValues(_)
DotenvValues(file) ==
    IF file = <<>> THEN <<>>
    ELSE IF ~LineValid(Head(file)) THEN DotenvValues(Tail(file))
    ELSE <<[key |-> Head(file).key, value |-> ParseValue(Head(file).raw)]>>
         \o DotenvValues(Tail(file))

KeysOf(values) == {values[i].key : i \in 1..Len(values)}

\* dict.get(key, default); a key bound twice reads its last binding
Get(values, key, default) ==
    IF key \in KeysOf(values)
    THEN values[CHOOSE i \in 1..Len(values) :
                    /\ values[i].key = key
                    /\ \A j \in (i + 1)..Len(values) : values[j].key # key].value
    ELSE default

Binds(line, key) == LineValid(line) /\ line.key = key

\* set_key(path, key, value, quote_mode="never"): the line `key=value`
\* replaces every line that binds key, or is appended when none does
SetKey(file, key, value) ==
    IF \E i \in 1..Len(file) : Binds(file[i], key)
    THEN [i \in 1..Len(file) |->
             IF Binds(file[i], key) THEN [key |-> key, raw |-> value] ELSE file[i]]
    ELSE Append(file, [key |-> key, raw |-> value])

\* an unset_key that leaves the file as it is
UnsetKeyNoop(file, key) == file

\* unset_key(path, key): every line that binds key is dropped
RECURSIVE UnsetKey(_, _)
UnsetKey(file, key) ==
    IF file = <<>> THEN <<>>
    ELSE IF Binds(Head(file), key) THEN UnsetKey(Tail(file), key)
    ELSE <<Head(file)>> \o UnsetKey(Tail(file), key)

(* ------------------------------------------------------------------ *)
(* Keys, and the values the files, the environment and the operator    *)
(* are drawn from                                                      *)
(* ------------------------------------------------------------------ *)

\* the keys Config.__init__ reads (a representative of each kind of field)
AllKeys == {"FAST_LLM_MODEL", "FAST_TOKEN_LIMIT", "OPENAI_API_KEY", "USE_AZURE",
            "OPENAI_AZURE_API_BASE", "USE_MAC_OS_TTS", "WIPE_REDIS_ON_START"}

\* the keys the template and the store range over
FileKeys == {"FAST_LLM_MODEL", "FAST_TOKEN_LIMIT"}

IsIntKey(k) == k = "FAST_TOKEN_LIMIT"

\* a template line: no default, or a default
TemplateRaws(k) == IF IsIntKey(k) THEN {<<>>, <<"7">>} ELSE {<<>>, <<"d">>}
\* a store line: an empty entry, or a value
StoreRaws(k) == IF IsIntKey(k) THEN {<<>>, <<"8">>} ELSE {<<>>, <<"s">>}
\* a variable exported in the process environment before the import
EnvVals(k) == IF IsIntKey(k) THEN {<<"9">>} ELSE {<<"e">>}
\* what the operator types at a value prompt
Inputs == {<<>>, <<" ">>, <<"o">>, <<" ", "5">>, <<"'", "'">>}
\* what the operator types at a yes/no prompt
Answers == {<<"y">>, <<"Y">>, <<"n">>, <<>>}

RawsOf(kind, k) == IF kind = "template" THEN TemplateRaws(k) ELSE StoreRaws(k)

\* the files with one line per key of a set, in any order
RECURSIVE FilesOver(_, _)
FilesOver(keys, kind) ==
    IF keys = {} THEN {<<>>}
    ELSE UNION {{<<[key |-> k, raw |-> r]>> \o f :
                    r \in RawsOf(kind, k), f \in FilesOver(keys \ {k}, kind)} : k \in keys}

TemplateFiles == UNION {FilesOver(ks, "template") : ks \in SUBSET FileKeys}
StoreFiles == UNION {FilesOver(ks, "store") : ks \in SUBSET FileKeys}

\* os.environ over the keys the registry reads
Environs == {e \in [AllKeys -> {Absent} \cup UNION {EnvVals(k) : k \in AllKeys}] :
                \A k \in AllKeys : /\ e[k] # Absent => e[k] \in EnvVals(k)
                                   /\ k \notin FileKeys => e[k] = Absent}

\* a load_dotenv that lets the file's value replace the environment's
LoadDotenvOverride(env, file) ==
    [k \in AllKeys |-> IF Get(DotenvValues(file), k, Absent) # Absent
                       THEN Get(DotenvValues(file), k, Absent)
                       ELSE env[k]]

\* load_dotenv(path) with override=False: a key the environment lacks takes
\* the file's value
LoadDotenv(env, file) ==
    [k \in AllKeys |-> IF env[k] # Absent THEN env[k]
                       ELSE Get(DotenvValues(file), k, Absent)]

(* ------------------------------------------------------------------ *)
(* Python values of the registry's fields                              *)
(* ------------------------------------------------------------------ *)

PyStr(s) == <<"str", s>>
PyInt(n) == <<"int", n>>
PyBool(b) == <<"bool", b>>
PyNone == <<"None">>
\* an attribute __init__ has not assigned
Unset == <<"unset">>

GPT35 == <<"g", "p", "t", "-", "3", ".", "5", "-", "t", "u", "r", "b", "o">>
TrueStr == <<"T", "r", "u", "e">>
FastTokenLimitDefault == 4000

\* os.getenv(key): a string or None
GetEnv(env, k) == IF env[k] = Absent THEN PyNone ELSE PyStr(env[k])
\* os.getenv(key, default)
GetEnvOr(env, k, default) == IF env[k] = Absent THEN default ELSE env[k]

\* no object: one that was never made, or was dropped when __init__ raised
NoObject ==
    [debug_mode |-> Unset, continuous_mode |-> Unset, speak_mode |-> Unset,
     fast_llm_model |-> Unset, fast_token_limit |-> Unset, openai_api_key |-> Unset,
     use_azure |-> Unset, openai_api_base |-> Unset, use_mac_os_tts |-> Unset,
     wipe_redis_on_start |-> Unset]

\* __init__ up to the reconciliation: the three mode flags
NewObject ==
    [debug_mode |-> PyBool(FALSE), continuous_mode |-> PyBool(FALSE),
     speak_mode |-> PyBool(FALSE),
     fast_llm_model |-> Unset, fast_token_limit |-> Unset, openai_api_key |-> Unset,
     use_azure |-> Unset, openai_api_base |-> Unset, use_mac_os_tts |-> Unset,
     wipe_redis_on_start |-> Unset]

\* int(os.getenv("FAST_TOKEN_LIMIT", 4000)) raises ValueError
IntRaises(env) == env["FAST_TOKEN_LIMIT"] # Absent /\ ~IsIntLiteral(env["FAST_TOKEN_LIMIT"])

\* __init__ after the reconciliation: every field read from os.environ
Populated(obj, env) ==
    LET azure == env["USE_AZURE"] = TrueStr
    IN  [obj EXCEPT
           !.fast_llm_model = PyStr(GetEnvOr(env, "FAST_LLM_MODEL", GPT35)),
           !.fast_token_limit = PyInt(IF env["FAST_TOKEN_LIMIT"] = Absent
                                      THEN FastTokenLimitDefault
                                      ELSE IntOf(env["FAST_TOKEN_LIMIT"])),
           !.openai_api_key = GetEnv(env, "OPENAI_API_KEY"),
           !.use_azure = PyBool(azure),
           !.openai_api_base = IF azure THEN GetEnv(env, "OPENAI_AZURE_API_BASE")
                               ELSE Unset,
           !.use_mac_os_tts = GetEnv(env, "USE_MAC_OS_TTS"),
           !.wipe_redis_on_start =
               PyBool(GetEnvOr(env, "WIPE_REDIS_ON_START", TrueStr) = TrueStr)]

(* ------------------------------------------------------------------ *)
(* The diff of update_env_from_template                                *)
(* ------------------------------------------------------------------ *)

\* removed_keys: the store's keys the template lacks, in store order
RECURSIVE RemovedKeys(_, _)
RemovedKeys(env_values, template_values) ==
    IF env_values = <<>> THEN <<>>
    ELSE (IF Head(env_values).key \notin KeysOf(template_values)
          THEN <<Head(env_values).key>> ELSE <<>>)
         \o RemovedKeys(Tail(env_values), template_values)

\* a diff that proposes a key whatever its default
RECURSIVE ChangesAnyDefault(_, _)
ChangesAnyDefault(env_values, template_values) ==
    IF template_values = <<>> THEN <<>>
    ELSE (IF Get(env_values, Head(template_values).key, <<>>) = <<>>
          THEN <<Head(template_values)>> ELSE <<>>)
         \o ChangesAnyDefault(env_values, Tail(template_values))

\* a diff that proposes a default whatever the store holds
RECURSIVE ChangesIgnoreStore(_, _)
ChangesIgnoreStore(env_values, template_values) ==
    IF template_values = <<>> THEN <<>>
    ELSE (IF Head(template_values).value # <<>>
          THEN <<Head(template_values)>> ELSE <<>>)
         \o ChangesIgnoreStore(env_values, Tail(template_values))

\* changes: the template's bindings with a non-empty value whose key the
\* store lacks or binds to the empty string, in template order
RECURSIVE Changes(_, _)
Changes(env_values, template_values) ==
    IF template_values = <<>> THEN <<>>
    ELSE (IF Get(env_values, Head(template_values).key, <<>>) = <<>>
             /\ Head(template_values).value # <<>>
          THEN <<Head(template_values)>> ELSE <<>>)
         \o Changes(env_values, Tail(template_values))

(* ------------------------------------------------------------------ *)
(* State                                                               *)
(* ------------------------------------------------------------------ *)

VARIABLES
    tmplExists,   \* .env.template is a file
    tmplFile,     \* its lines
    envExists,    \* .env is a file
    envFile,      \* its lines
    environ,      \* os.environ
    instances,    \* Singleton._instances[Config]: an object id, 0 when none
    objs,         \* the Config objects allocated so far, by id
    pc,           \* where each thread stands
    self,         \* the object a thread's __init__ or method runs on, 0 if none
    ret,          \* what a thread's last Config() gave: an id, 0 none yet, -1 raised
    inInit,       \* the thread's update_env_from_template was called by __init__
    changes,      \* the thread's local `changes` still to prompt for
    removed,      \* the thread's local `removed_keys` still to unset
    run,          \* history of the thread's current or last reconciliation run
    nAccess,      \* Config() calls a thread has made
    nUpdate,      \* explicit update_env_from_template() calls made
    nSet          \* setter calls made

vars == <<tmplExists, tmplFile, envExists, envFile, environ, instances, objs, pc,
          self, ret, inInit, changes, removed, run, nAccess, nUpdate, nSet>>

files == <<tmplExists, tmplFile, envExists, envFile>>
locals == <<changes, removed>>
counters == <<nAccess, nUpdate, nSet>>

\* the store as one value: whether the file exists, and its lines
Store == [exists |-> envExists, file |-> envFile]

\* a thread's history before its first run
NoRun ==
    [n |-> 0, outcome |-> "none", pre |-> [exists |-> FALSE, file |-> <<>>],
     gate |-> [exists |-> FALSE, file |-> <<>>],
     prev |-> "none", prevRead |-> TRUE, create |-> Absent, apply |-> Absent,
     adds |-> <<>>, rems |-> <<>>, events |-> <<>>, entered |-> <<>>,
     readBack |-> TRUE, env |-> [k \in AllKeys |-> Absent]]

\* the state once the module is imported: load_dotenv() has read the store
\* into the environment the process started with
InitWith(templates, stores, environs) ==
    /\ tmplExists \in BOOLEAN
    /\ tmplFile \in (IF tmplExists THEN templates ELSE {<<>>})
    /\ envExists \in BOOLEAN
    /\ envFile \in (IF envExists THEN stores ELSE {<<>>})
    /\ \E e \in environs : environ = LoadDotenv(e, envFile)
    /\ instances = 0
    /\ objs = [o \in ObjIds |-> NoObject]
    /\ pc = [t \in Threads |-> "idle"]
    /\ self = [t \in Threads |-> 0]
    /\ ret = [t \in Threads |-> 0]
    /\ inInit = [t \in Threads |-> FALSE]
    /\ changes = [t \in Threads |-> <<>>]
    /\ removed = [t \in Threads |-> <<>>]
    /\ run = [t \in Threads |-> NoRun]
    /\ nAccess = [t \in Threads |-> 0]
    /\ nUpdate = 0
    /\ nSet = 0

\* the environment holds no key of the files before the import
NoPreset == {e \in Environs : \A k \in AllKeys : e[k] = Absent}

\* every template and store, in a process started with none of their keys
\* exported
Init == InitWith(TemplateFiles, StoreFiles, NoPreset)

\* the same, in a process started with any of their keys exported
InitEnviron == InitWith(TemplateFiles, StoreFiles, Environs)

(* ------------------------------------------------------------------ *)
(* Config.update_env_from_template                                     *)
(* ------------------------------------------------------------------ *)

\* where a thread goes when update_env_from_template returns: on to the
\* rest of __init__, or back to its caller
After(fromInit) == IF fromInit THEN "populate" ELSE "idle"

\* the object of the thread's k-th construction
ObjOf(t, k) == (t - 1) * MaxAccess + k

\* a merge that writes the default whatever the operator typed
WrittenAlwaysDefault(input, default) == default

\* the value set_key is given for an addition: the operator's input unless
\* it is blank, then the template's value
Written(input, default) == IF Strip(input) # <<>> THEN input ELSE default

\* a written value that reads back from the store as a non-empty value
ReadsBack(value) == ParseValue(value) # <<>> /\ ParseValue(value) # Invalid

\* the pc after the merge was approved or a key was written
NextWrite(ch, rem, fromInit) ==
    IF ch # <<>> THEN "askValue" ELSE IF rem # <<>> THEN "unset" ELSE After(fromInit)

\* the run's history once a merge step leaves ch and rem to do
Progress(r, ch, rem) ==
    IF ch # <<>> THEN [r EXCEPT !.events = Append(@, "askValue")]
    ELSE IF rem # <<>> THEN r
    ELSE [r EXCEPT !.outcome = "applied"]

\* a method that asks for approval whatever the diff
HasDiffAlways(ch, rem) == TRUE

\* line 63: `if changes or removed_keys`
HasDiff(ch, rem) == ch # <<>> \/ rem # <<>>

\* lines 53-70: load the template into the environment, read both files,
\* compute the diff and either return or ask for the merge's approval
LoadAndDiff(t, r, file, fromInit) ==
    LET env_values == DotenvValues(file)
        template_values == DotenvValues(tmplFile)
        rem == RemovedKeys(env_values, template_values)
        ch == Changes(env_values, template_values)
    IN  /\ environ' = LoadDotenv(environ, tmplFile)
        /\ IF HasDiff(ch, rem)
           THEN /\ changes' = [changes EXCEPT ![t] = ch]
                /\ removed' = [removed EXCEPT ![t] = rem]
                /\ pc' = [pc EXCEPT ![t] = "askApply"]
                /\ run' = [run EXCEPT ![t] =
                             [r EXCEPT !.adds = ch, !.rems = rem,
                                       !.gate = [exists |-> TRUE, file |-> file],
                                       !.events = Append(@, "askApply")]]
           ELSE /\ changes' = [changes EXCEPT ![t] = <<>>]
                /\ removed' = [removed EXCEPT ![t] = <<>>]
                /\ pc' = [pc EXCEPT ![t] = After(fromInit)]
                /\ run' = [run EXCEPT ![t] =
                             [r EXCEPT !.outcome = "noDiff",
                                       !.gate = [exists |-> TRUE, file |-> file]]]

\* a method that does not look for the template
TemplateIsFileUnchecked == TRUE

\* line 41: template_file.is_file()
TemplateIsFile == tmplExists

\* line 45: env_file.is_file()
EnvIsFile == envExists

\* lines 38-51: the method's entry, up to its first prompt or its return
UpdateEnvFromTemplate(t, fromInit) ==
    LET r == [NoRun EXCEPT !.n = run[t].n + 1, !.outcome = "running", !.pre = Store,
                           !.prev = run[t].outcome, !.prevRead = run[t].readBack,
                           !.env = environ]
    IN  /\ inInit' = [inInit EXCEPT ![t] = fromInit]
        /\ UNCHANGED files
        /\ IF ~TemplateIsFile
           THEN /\ pc' = [pc EXCEPT ![t] = After(fromInit)]
                /\ run' = [run EXCEPT ![t] = [r EXCEPT !.outcome = "noTemplate"]]
                /\ UNCHANGED <<environ, locals>>
           ELSE IF ~EnvIsFile
           THEN /\ pc' = [pc EXCEPT ![t] = "askCreate"]
                /\ run' = [run EXCEPT ![t] = [r EXCEPT !.events = <<"askCreate">>]]
                /\ UNCHANGED <<environ, locals>>
           ELSE LoadAndDiff(t, r, envFile, fromInit)

\* line 97: __init__ calls the method
InitUpdate(t) ==
    /\ pc[t] = "init"
    /\ UpdateEnvFromTemplate(t, TRUE)
    /\ UNCHANGED <<instances, objs, self, ret, counters>>

\* the method called on the instance a thread holds
CallUpdate(t) ==
    /\ pc[t] = "idle"
    /\ ret[t] > 0
    /\ nUpdate < MaxUpdate
    /\ nUpdate' = nUpdate + 1
    /\ UpdateEnvFromTemplate(t, FALSE)
    /\ UNCHANGED <<instances, objs, self, ret, nAccess, nSet>>

\* lines 46-51: the answer to "Create an empty file?"
AnswerCreate(t) ==
    /\ pc[t] = "askCreate"
    /\ \E answer \in Answers :
         IF IsYes(answer)
         THEN LET file == IF envExists THEN envFile ELSE <<>>
              IN  /\ envExists' = TRUE
                  /\ envFile' = file
                  /\ LoadAndDiff(t, [run[t] EXCEPT !.events = Append(@, "touch"),
                                                    !.create = answer],
                                 file, inInit[t])
         ELSE /\ pc' = [pc EXCEPT ![t] = After(inInit[t])]
              /\ run' = [run EXCEPT ![t].outcome = "noStore", ![t].create = answer]
              /\ UNCHANGED <<envExists, envFile, environ, locals>>
    /\ UNCHANGED <<tmplExists, tmplFile, instances, objs, self, ret, inInit, counters>>

\* lines 70-75 and 87-88: the answer to "Do you want to apply changes?"
AnswerApply(t) ==
    /\ pc[t] = "askApply"
    /\ \E answer \in Answers :
         IF IsYes(answer)
         THEN /\ pc' = [pc EXCEPT ![t] = NextWrite(changes[t], removed[t], inInit[t])]
              /\ run' = [run EXCEPT ![t] =
                           Progress([run[t] EXCEPT !.events = Append(@, "approve"),
                                                   !.apply = answer],
                                    changes[t], removed[t])]
              /\ UNCHANGED locals
         ELSE /\ pc' = [pc EXCEPT ![t] = After(inInit[t])]
              /\ run' = [run EXCEPT ![t].outcome = "declined", ![t].apply = answer,
                                    ![t].events = Append(@, "decline")]
              /\ changes' = [changes EXCEPT ![t] = <<>>]
              /\ removed' = [removed EXCEPT ![t] = <<>>]
    /\ UNCHANGED <<files, environ, instances, objs, self, ret, inInit, counters>>

\* lines 76-83: one turn of the loop over changes, the operator's value
\* read and the key set
AnswerValue(t) ==
    /\ pc[t] = "askValue"
    /\ \E new_value \in Inputs :
         LET key == Head(changes[t]).key
             value == Written(new_value, Head(changes[t]).value)
             rest == Tail(changes[t])
             r == [run[t] EXCEPT
                     !.events = Append(@, "set"),
                     !.entered = Append(@, [key |-> key, input |-> new_value]),
                     !.readBack = @ /\ ReadsBack(value)]
         IN  /\ envFile' = SetKey(envFile, key, value)
             /\ changes' = [changes EXCEPT ![t] = rest]
             /\ pc' = [pc EXCEPT ![t] = NextWrite(rest, removed[t], inInit[t])]
             /\ run' = [run EXCEPT ![t] = Progress(r, rest, removed[t])]
    /\ UNCHANGED <<tmplExists, tmplFile, envExists, environ, instances, objs, self,
                   ret, inInit, removed, counters>>

\* lines 84-86: one turn of the loop over removed_keys
UnsetStep(t) ==
    /\ pc[t] = "unset"
    /\ LET key == Head(removed[t])
           rest == Tail(removed[t])
       IN  /\ envFile' = UnsetKey(envFile, key)
           /\ removed' = [removed EXCEPT ![t] = rest]
           /\ pc' = [pc EXCEPT ![t] = NextWrite(<<>>, rest, inInit[t])]
           /\ run' = [run EXCEPT ![t] =
                        Progress([run[t] EXCEPT !.events = Append(@, "unset")],
                                 <<>>, rest)]
    /\ UNCHANGED <<tmplExists, tmplFile, envExists, environ, instances, objs, self,
                   ret, inInit, changes, counters>>

\* set_key or unset_key raises (the file cannot be rewritten): the exception
\* leaves the method and, from __init__, the constructor
WriteFails(t) ==
    /\ pc[t] \in {"askValue", "unset"}
    /\ pc' = [pc EXCEPT ![t] = "idle"]
    /\ run' = [run EXCEPT ![t].outcome = "failed", ![t].events = Append(@, "error")]
    /\ changes' = [changes EXCEPT ![t] = <<>>]
    /\ removed' = [removed EXCEPT ![t] = <<>>]
    /\ IF inInit[t]
       THEN /\ objs' = [objs EXCEPT ![self[t]] = NoObject]
            /\ self' = [self EXCEPT ![t] = 0]
            /\ ret' = [ret EXCEPT ![t] = -1]
       ELSE UNCHANGED <<objs, self, ret>>
    /\ UNCHANGED <<files, environ, instances, inInit, counters>>

(* ------------------------------------------------------------------ *)
(* Singleton.__call__, Config.__init__, the setters                    *)
(* ------------------------------------------------------------------ *)

\* a metaclass that never finds its instance
HasInstanceNever == FALSE

\* a metaclass that takes any earlier call, failed or not, for an instance
HasInstanceOnceCalled == instances # 0 \/ \E t \in Threads : nAccess[t] > 0

\* line 19: cls in cls._instances
HasInstance == instances # 0

\* lines 19-22 and 93-95: no instance is registered, so a new object is
\* made and __init__ starts on it
CallConstruct(t) ==
    /\ pc[t] = "idle"
    /\ nAccess[t] < MaxAccess
    /\ ~HasInstance
    /\ nAccess' = [nAccess EXCEPT ![t] = @ + 1]
    /\ objs' = [objs EXCEPT ![ObjOf(t, nAccess[t] + 1)] = NewObject]
    /\ self' = [self EXCEPT ![t] = ObjOf(t, nAccess[t] + 1)]
    /\ pc' = [pc EXCEPT ![t] = "init"]
    /\ UNCHANGED <<files, environ, instances, ret, inInit, locals, run, nUpdate, nSet>>

\* lines 19 and 23: an instance is registered and is returned
CallCached(t) ==
    /\ pc[t] = "idle"
    /\ nAccess[t] < MaxAccess
    /\ HasInstance
    /\ nAccess' = [nAccess EXCEPT ![t] = @ + 1]
    /\ ret' = [ret EXCEPT ![t] = instances]
    /\ UNCHANGED <<files, environ, instances, objs, pc, self, inInit, locals, run,
                   nUpdate, nSet>>

\* lines 99-141: the fields are read from os.environ; int() may raise, and
\* the exception leaves the constructor
Populate(t) ==
    /\ pc[t] = "populate"
    /\ IF IntRaises(environ)
       THEN /\ objs' = [objs EXCEPT ![self[t]] = NoObject]
            /\ self' = [self EXCEPT ![t] = 0]
            /\ ret' = [ret EXCEPT ![t] = -1]
            /\ pc' = [pc EXCEPT ![t] = "idle"]
       ELSE /\ objs' = [objs EXCEPT ![self[t]] = Populated(@, environ)]
            /\ pc' = [pc EXCEPT ![t] = "register"]
            /\ UNCHANGED <<self, ret>>
    /\ UNCHANGED <<files, environ, instances, inInit, locals, run, counters>>

\* lines 20-23: the constructed object is registered and returned
Register(t) ==
    /\ pc[t] = "register"
    /\ instances' = self[t]
    /\ ret' = [ret EXCEPT ![t] = self[t]]
    /\ self' = [self EXCEPT ![t] = 0]
    /\ pc' = [pc EXCEPT ![t] = "idle"]
    /\ UNCHANGED <<files, environ, objs, inInit, locals, run, counters>>

\* the fields that have a setter, and the values the model passes
SetterFields == {"continuous_mode", "speak_mode", "debug_mode", "fast_llm_model",
                 "fast_token_limit", "openai_api_key"}

SetterValues(f) ==
    IF f \in {"continuous_mode", "speak_mode", "debug_mode"} THEN {PyBool(TRUE)}
    ELSE IF f = "fast_token_limit" THEN {PyInt(1)}
    ELSE {PyStr(<<"z">>)}

\* a setter that stores its argument in speak_mode as well
SetFieldAndSpeakMode(obj, f, value) == [obj EXCEPT ![f] = value, !.speak_mode = value]

\* the body of set_<field>: self.<field> = value
SetField(obj, f, value) == [obj EXCEPT ![f] = value]

\* lines 143-193: set_<field>(value) on the instance the thread holds
Setter(t) ==
    /\ pc[t] = "idle"
    /\ ret[t] > 0
    /\ nSet < MaxSet
    /\ nSet' = nSet + 1
    /\ \E f \in SetterFields : \E value \in SetterValues(f) :
         objs' = [objs EXCEPT ![ret[t]] = SetField(@, f, value)]
    /\ UNCHANGED <<files, environ, instances, pc, self, ret, inInit, locals, run,
                   nAccess, nUpdate>>

\* a step of Config(): Singleton.__call__, __init__ and the reconciliation
\* it runs
Access(t) ==
    \/ CallConstruct(t)
    \/ CallCached(t)
    \/ InitUpdate(t)
    \/ AnswerCreate(t)
    \/ AnswerApply(t)
    \/ AnswerValue(t)
    \/ UnsetStep(t)
    \/ WriteFails(t)
    \/ Populate(t)
    \/ Register(t)

\* one thread, the code's single logical flow: registry accesses and
\* further reconciliation runs
Next == Access(1) \/ CallUpdate(1)

Spec == Init /\ [][Next]_vars

\* one thread using the registry: accesses and setter calls
NextRegistry == Access(1) \/ Setter(1)

SpecRegistry == Init /\ [][NextRegistry]_vars

\* one thread accessing the registry in a process started with any of the
\* files' keys exported
NextEnviron == Access(1)

SpecEnviron == InitEnviron /\ [][NextEnviron]_vars

\* every thread accessing the registry; a thread may be preempted between
\* any two steps, and waits at each prompt
NextThreads == \E t \in Threads : Access(t)

\* a template with one default; a store that is empty or holds one key the
\* template lacks
InitThreads ==
    InitWith({<<[key |-> "FAST_LLM_MODEL", raw |-> <<"d">>]>>},
             {<<>>, <<[key |-> "FAST_TOKEN_LIMIT", raw |-> <<"8">>]>>}, NoPreset)

SpecThreads == InitThreads /\ [][NextThreads]_vars

\* the keys of the boolean fields, and what a store line may give them
FlagKeys == <<"USE_AZURE", "USE_MAC_OS_TTS", "WIPE_REDIS_ON_START">>
LowerTrue == <<"t", "r", "u", "e">>
FlagRaws == {TrueStr, LowerTrue}

\* the stores that give each boolean key a line or none, in the order of
\* FlagKeys
RECURSIVE FlagFiles(_)
FlagFiles(i) ==
    IF i > Len(FlagKeys) THEN {<<>>}
    ELSE {f : f \in FlagFiles(i + 1)}
         \cup {<<[key |-> FlagKeys[i], raw |-> r]>> \o f :
                  r \in FlagRaws, f \in FlagFiles(i + 1)}

\* a template with one default and none of the boolean keys; a store with
\* any of them
InitFlags ==
    InitWith({<<[key |-> "FAST_LLM_MODEL", raw |-> <<"d">>]>>}, FlagFiles(1), NoPreset)

NextFlags == Access(1)

\* one thread accessing the registry over a store that holds boolean keys
SpecFlags == InitFlags /\ [][NextFlags]_vars

(* ------------------------------------------------------------------ *)
(* Notions the properties are stated in                                *)
(* ------------------------------------------------------------------ *)

\* the value a file holds for a key, Absent when it binds none
ValueIn(file, k) == Get(DotenvValues(file), k, Absent)

\* the keys a file binds
BoundIn(file) == {k \in FileKeys : ValueIn(file, k) # Absent}

\* a key the file binds to a non-empty value
HoldsValue(file, k) == ValueIn(file, k) # Absent /\ ValueIn(file, k) # <<>>

Range(seq) == {seq[i] : i \in 1..Len(seq)}

\* a case-insensitive "y"
Affirmative(answer) == answer \in {<<"y">>, <<"Y">>}

\* the thread's run has returned or raised
Ended(t) == run[t].outcome \notin {"none", "running"}

\* the thread's run has computed its diff
DiffComputed(t) ==
    \/ run[t].outcome \in {"noDiff", "declined", "applied", "failed"}
    \/ run[t].outcome = "running" /\ pc[t] \in {"askApply", "askValue", "unset"}

\* the thread's run wrote to the store (touch, set_key or unset_key)
Wrote(t) == Range(run[t].events) \cap {"touch", "set", "unset"} # {}

(* ------------------------------------------------------------------ *)
(* Properties                                                          *)
(* ------------------------------------------------------------------ *)

\* C4: the additions a run computes are exactly the template's keys with a
\* non-empty default that the store lacks or binds to the empty string, each
\* once; its removals are exactly the store's keys the template lacks; so a
\* key with an empty default is never an addition, and additions and
\* removals share no key.
C4_DiffIsExact ==
    \A t \in Threads : DiffComputed(t) =>
        LET S == run[t].gate.file
            adds == {run[t].adds[i].key : i \in 1..Len(run[t].adds)}
            rems == Range(run[t].rems)
        IN  /\ adds = {k \in BoundIn(tmplFile) :
                         HoldsValue(tmplFile, k) /\ ~HoldsValue(S, k)}
            /\ \A i \in 1..Len(run[t].adds) :
                  run[t].adds[i].value = ValueIn(tmplFile, run[t].adds[i].key)
            /\ rems = BoundIn(S) \ BoundIn(tmplFile)
            /\ Len(run[t].adds) = Cardinality(adds)
            /\ Len(run[t].rems) = Cardinality(rems)
            /\ adds \cap rems = {}
            /\ \A k \in BoundIn(tmplFile) : ValueIn(tmplFile, k) = <<>> => k \notin adds

\* a run whose diff holds an addition and a removal, and a run that leaves a
\* key with an empty default, missing from the store, out of its additions
C4_Witness ==
    \E t \in Threads :
        /\ DiffComputed(t)
        /\ run[t].adds # <<>>
        /\ run[t].rems # <<>>

C4_WitnessEmptyDefault ==
    \E t \in Threads : \E k \in BoundIn(tmplFile) :
        /\ DiffComputed(t)
        /\ ValueIn(tmplFile, k) = <<>>
        /\ ValueIn(run[t].gate.file, k) = Absent
        /\ run[t].adds # <<>>

\* C2: a key the template declares and the store held with a non-empty value
\* when a run started holds that same value throughout and after the run,
\* whatever the template's default and the operator's answers.
C2_NoSilentOverwrite ==
    \A t \in Threads : run[t].n > 0 =>
        \A k \in BoundIn(tmplFile) :
            HoldsValue(run[t].pre.file, k) =>
                /\ envExists
                /\ ValueIn(envFile, k) = ValueIn(run[t].pre.file, k)

\* an approved merge has written a key while another key, declared with a
\* default, kept the value the store held for it
C2_Witness ==
    \E t \in Threads : \E k \in BoundIn(tmplFile) :
        /\ run[t].outcome = "applied"
        /\ "set" \in Range(run[t].events)
        /\ HoldsValue(tmplFile, k)
        /\ HoldsValue(run[t].pre.file, k)
        /\ ValueIn(run[t].pre.file, k) # ValueIn(tmplFile, k)

\* C3 as stated: a run whose merge prompt got anything but a yes ends with
\* the store as it was when the run started, existence included.
C3_DeclineKeepsStartStore ==
    \A t \in Threads :
        (Ended(t) /\ run[t].apply # Absent /\ ~Affirmative(run[t].apply)) =>
            Store = run[t].pre

\* C3 amended: such a run ends with the store as it stood when the merge
\* prompt was issued: the store the run started with when that existed, the
\* empty store the operator had agreed to create when it did not.
C3_DeclineIsNoop ==
    \A t \in Threads :
        (Ended(t) /\ run[t].apply # Absent /\ ~Affirmative(run[t].apply)) =>
            /\ Store = run[t].gate
            /\ run[t].pre.exists => Store = run[t].pre
            /\ ~run[t].pre.exists => Store = [exists |-> TRUE, file |-> <<>>]

\* a declined merge that proposed an addition and a removal to a store that
\* existed
C3_Witness ==
    \E t \in Threads :
        /\ Ended(t)
        /\ run[t].apply = <<>>
        /\ run[t].pre.exists
        /\ run[t].adds # <<>>
        /\ run[t].rems # <<>>

\* C9: a run that finds no template ends without a prompt and without a
\* write, the store as it was; a run that finds no store and is refused its
\* creation ends with the store still absent, having asked nothing else.
C9_AbortLeavesStore ==
    \A t \in Threads : Ended(t) =>
        /\ ~tmplExists => (run[t].events = <<>> /\ Store = run[t].pre)
        /\ (tmplExists /\ ~run[t].pre.exists /\ ~Affirmative(run[t].create)) =>
              /\ ~envExists
              /\ Store = run[t].pre
              /\ run[t].events = <<"askCreate">>

\* a run refused the creation of the store; a run without a template over a
\* store that holds keys
C9_Witness ==
    \E t \in Threads :
        /\ Ended(t)
        /\ tmplExists
        /\ ~run[t].pre.exists
        /\ run[t].create = <<"n">>

C9_WitnessNoTemplate ==
    \E t \in Threads : Ended(t) /\ ~tmplExists /\ envExists /\ envFile # <<>>

\* what C5 takes an addition to hold: the replacement if not blank, else the
\* default
Chosen(input, default) == IF Strip(input) # <<>> THEN input ELSE default

\* the keys of a run's additions and removals
Touched(t) == {run[t].adds[i].key : i \in 1..Len(run[t].adds)} \cup Range(run[t].rems)

\* C5 as stated: after an approved merge whose writes all succeeded the
\* store binds no removal, binds every addition to the operator's replacement
\* if one was entered and else to the default, and every other key as before.
C5_MergeHoldsReplacement ==
    \A t \in Threads : run[t].outcome = "applied" =>
        /\ \A k \in Range(run[t].rems) : ValueIn(envFile, k) = Absent
        /\ \A i \in 1..Len(run[t].entered) :
              ValueIn(envFile, run[t].entered[i].key)
                  = Chosen(run[t].entered[i].input,
                           ValueIn(tmplFile, run[t].entered[i].key))
        /\ \A k \in FileKeys \ Touched(t) :
              ValueIn(envFile, k) = ValueIn(run[t].gate.file, k)

\* C5 amended: the store then has, for every addition, the line `key=text`
\* with text the replacement as typed if not blank and else the default; the
\* key reads back as the parser reads that line: text itself for a plain
\* token, text without its surrounding blanks for a padded one, the empty
\* string for ''. The store binds no removal, and every other key as before.
C5_ApprovedMerge ==
    \A t \in Threads : run[t].outcome = "applied" =>
        /\ \A k \in Range(run[t].rems) : ValueIn(envFile, k) = Absent
        /\ Len(run[t].entered) = Len(run[t].adds)
        /\ \A i \in 1..Len(run[t].entered) :
              LET key == run[t].entered[i].key
                  text == Chosen(run[t].entered[i].input, ValueIn(tmplFile, key))
              IN  /\ key = run[t].adds[i].key
                  /\ \E j \in 1..Len(envFile) : envFile[j] = [key |-> key, raw |-> text]
                  /\ ValueIn(envFile, key)
                        = (IF text = <<"'", "'">> THEN <<>> ELSE Strip(text))
        /\ \A k \in FileKeys \ Touched(t) :
              ValueIn(envFile, k) = ValueIn(run[t].gate.file, k)

\* an approved merge with a removal and a replacement typed with a blank
\* before it
C5_Witness ==
    \E t \in Threads :
        /\ run[t].outcome = "applied"
        /\ run[t].rems # <<>>
        /\ \E i \in 1..Len(run[t].entered) : run[t].entered[i].input = <<" ", "5">>

\* C1 as stated: a run that follows another run of the thread computes an
\* empty diff and writes nothing, whatever the first run was answered.
C1_SecondRunEmpty ==
    \A t \in Threads : run[t].prev # "none" =>
        /\ run[t].adds = <<>>
        /\ run[t].rems = <<>>
        /\ ~Wrote(t)

\* C1 amended: a run that follows a run which found an empty diff, or whose
\* merge was approved and applied with every written value reading back
\* non-empty, finds an empty diff, asks nothing and writes nothing.
C1_Idempotent ==
    \A t \in Threads :
        (run[t].prev \in {"applied", "noDiff"} /\ run[t].prevRead) =>
            /\ run[t].outcome = "noDiff"
            /\ run[t].adds = <<>>
            /\ run[t].rems = <<>>
            /\ run[t].events = <<>>
            /\ Store = run[t].pre

\* a second run after an applied merge
C1_Witness ==
    \E t \in Threads :
        /\ run[t].prev = "applied"
        /\ run[t].prevRead
        /\ run[t].outcome = "noDiff"
        /\ envFile # <<>>

\* the processes' threads that hold no exception from Config()
NoneRaised == \A t \in Threads : ret[t] # -1

\* reconciliation runs started by all threads
RECURSIVE RunsOf(_)
RunsOf(ts) == IF ts = {} THEN 0
              ELSE LET t == CHOOSE u \in ts : TRUE IN run[t].n + RunsOf(ts \ {t})

\* C6 as stated: when threads call Config() before any instance exists and
\* no construction raises, one reconciliation pass runs, one object is made
\* and every caller gets that object.
C6_OneConstruction ==
    NoneRaised =>
        /\ RunsOf(Threads) <= 1
        /\ Cardinality({o \in ObjIds : objs[o] # NoObject}) <= 1
        /\ \A t, u \in Threads : (ret[t] > 0 /\ ret[u] > 0) => ret[t] = ret[u]

\* C7 as stated: a reconciliation run starts only in a thread's first access.
C7_RunsOnlyInFirstAccess ==
    [][\A t \in Threads : run'[t].n # run[t].n => nAccess[t] = 1]_vars

\* C7 amended: the registered instance never changes and is what every
\* access returns; a reconciliation run starts only while no instance is
\* registered (the first access, or an access after a construction that
\* raised); the registered object's fields change only in a setter call,
\* which changes one field of that object.
C7_SingletonStable ==
    [][/\ instances # 0 => instances' = instances
       /\ \A t \in Threads : (ret'[t] > 0 /\ ret'[t] # ret[t]) => ret'[t] = instances'
       /\ \A t \in Threads : run'[t].n # run[t].n => instances = 0
       /\ (instances # 0 /\ nSet' = nSet) => objs'[instances] = objs[instances]
       /\ nSet' # nSet =>
            /\ instances # 0
            /\ \A o \in ObjIds \ {instances} : objs'[o] = objs[o]
            /\ Cardinality({f \in DOMAIN objs[instances] :
                               objs'[instances][f] # objs[instances][f]}) <= 1
            /\ \E f \in SetterFields : objs'[instances][f] \in SetterValues(f)]_vars

\* a field set through its setter, read on the instance a second access
\* returned
C7_Witness ==
    \E t \in Threads :
        /\ nSet = 1
        /\ nAccess[t] = 2
        /\ pc[t] = "idle"
        /\ ret[t] > 0
        /\ ret[t] = instances
        /\ objs[ret[t]].fast_llm_model = PyStr(<<"z">>)
        /\ run[t].n = 1

\* a run from __init__ that ended in a fatal condition: no template, or no
\* store and its creation refused
Fatal(t) ==
    /\ inInit[t]
    /\ Ended(t)
    /\ \/ ~tmplExists
       \/ ~run[t].pre.exists /\ ~Affirmative(run[t].create)

\* C8 as stated: after a fatal reconciliation the access raises: the
\* constructor goes no further, no field is populated and no instance is
\* registered.
C8_FatalPreventsConstruction ==
    \A t \in Threads : Fatal(t) =>
        /\ pc[t] \notin {"populate", "register"}
        /\ instances = 0
        /\ \A o \in ObjIds : objs[o].fast_llm_model = Unset

\* what os.environ would hold were it read from the store as it stands
StoreEnviron == [k \in AllKeys |-> IF envExists THEN ValueIn(envFile, k) ELSE Absent]

\* C10 as stated: the fields __init__ has populated are those the store, as
\* the reconciliation left it, gives: a key's value, or the field's default
\* when the store binds no value to it.
C10_FieldsFromStore ==
    \A t \in Threads : pc[t] = "register" =>
        /\ objs[self[t]].fast_llm_model
              = PyStr(GetEnvOr(StoreEnviron, "FAST_LLM_MODEL", GPT35))
        /\ objs[self[t]].fast_token_limit
              = PyInt(IF IsIntLiteral(GetEnvOr(StoreEnviron, "FAST_TOKEN_LIMIT", <<>>))
                      THEN IntOf(StoreEnviron["FAST_TOKEN_LIMIT"])
                      ELSE FastTokenLimitDefault)

\* C10, its particular case: a replacement the operator typed as a plain
\* value for FAST_LLM_MODEL is the value of fast_llm_model.
C10_ReplacementExposed ==
    \A t \in Threads :
        (/\ pc[t] = "register"
         /\ run[t].outcome = "applied"
         /\ \E i \in 1..Len(run[t].entered) :
               run[t].entered[i] = [key |-> "FAST_LLM_MODEL", input |-> <<"o">>])
        => objs[self[t]].fast_llm_model = PyStr(<<"o">>)

\* how many times an event occurs in a run's history
Count(seq, e) == Cardinality({i \in 1..Len(seq) : seq[i] = e})

\* every addition of the thread's run has been set and every removal unset
FullyMerged(t) ==
    /\ Count(run[t].events, "set") = Len(run[t].adds)
    /\ Count(run[t].events, "unset") = Len(run[t].rems)

\* C11 as stated: in every state of a run that has computed its diff, a
\* write having failed part-way or not, the store is the store the merge
\* started from or the store with every addition and removal applied, never
\* one with only some of them applied.
C11_NoHalfAppliedStore ==
    \A t \in Threads : DiffComputed(t) => (Store = run[t].gate \/ FullyMerged(t))

\* C11, its particular case: a run ended by a failed write leaves the store
\* the merge started from.
C11_FailedWriteLeavesStore ==
    \A t \in Threads : run[t].outcome = "failed" => Store = run[t].gate

\* the text __init__ finds for FAST_TOKEN_LIMIT is not an integer literal
\* (the empty string included)
MalformedLimit == environ["FAST_TOKEN_LIMIT"] # Absent
                    /\ ~IsIntLiteral(environ["FAST_TOKEN_LIMIT"])

\* C12 as stated: when the value found for FAST_TOKEN_LIMIT is not a
\* well-formed integer, the population of the fields does not fail: it goes
\* on to the registration, with fast_token_limit its default 4000.
C12_DefensiveIntParsing ==
    [][\A t \in Threads :
          (pc[t] = "populate" /\ pc'[t] # "populate" /\ MalformedLimit) =>
              /\ pc'[t] = "register"
              /\ objs'[self[t]].fast_token_limit = PyInt(FastTokenLimitDefault)]_vars

\* C13 as stated: each boolean field populated from a key is boolean true
\* when the string found for its key is 'True', and boolean false for any
\* other string and when the key is absent.
C13_BooleanLiteralMatch ==
    \A t \in Threads : pc[t] = "register" =>
        /\ objs[self[t]].use_azure = PyBool(environ["USE_AZURE"] = TrueStr)
        /\ objs[self[t]].use_mac_os_tts = PyBool(environ["USE_MAC_OS_TTS"] = TrueStr)
        /\ objs[self[t]].wipe_redis_on_start
              = PyBool(environ["WIPE_REDIS_ON_START"] = TrueStr)

\* C13, its particular cases: use_azure alone; use_mac_os_tts is a boolean;
\* wipe_redis_on_start is false when its key is absent.
C13_UseAzure ==
    \A t \in Threads : pc[t] = "register" =>
        objs[self[t]].use_azure = PyBool(environ["USE_AZURE"] = TrueStr)

C13_MacOsTtsIsBoolean ==
    \A t \in Threads : pc[t] = "register" =>
        objs[self[t]].use_mac_os_tts \in {PyBool(TRUE), PyBool(FALSE)}

C13_WipeFalseWhenAbsent ==
    \A t \in Threads :
        (pc[t] = "register" /\ environ["WIPE_REDIS_ON_START"] = Absent) =>
            objs[self[t]].wipe_redis_on_start = PyBool(FALSE)

\* C14: a setter call changes one field of the registered instance, a field
\* that has a setter, to the value passed; every other field of it, every
\* other object, the store, the template, the environment and the
\* registration stay as they were, and no reconciliation run starts or
\* moves.
C14_SetterFrame ==
    [][nSet' # nSet =>
          /\ instances # 0
          /\ \E f \in SetterFields : \E value \in SetterValues(f) :
                /\ objs'[instances][f] = value
                /\ \A g \in DOMAIN objs[instances] \ {f} :
                      objs'[instances][g] = objs[instances][g]
          /\ \A o \in ObjIds \ {instances} : objs'[o] = objs[o]
          /\ UNCHANGED <<tmplExists, tmplFile, envExists, envFile, environ,
                         instances, run, pc, inInit, changes, removed>>]_vars

\* set_fast_token_limit called on an instance populated over a store that
\* holds keys, after a reconciliation that wrote to it
C14_Witness ==
    /\ nSet = 1
    /\ instances # 0
    /\ objs[instances].fast_token_limit = PyInt(1)
    /\ objs[instances].fast_llm_model = PyStr(<<"d">>)
    /\ objs[instances].speak_mode = PyBool(FALSE)
    /\ envFile # <<>>
    /\ run[1].outcome = "applied"

\* the diff of a store against the template has no addition and no removal
EmptyDiff(file) ==
    /\ Changes(DotenvValues(file), DotenvValues(tmplFile)) = <<>>
    /\ RemovedKeys(DotenvValues(file), DotenvValues(tmplFile)) = <<>>

\* C15: a run that finds the template and the store and computes an empty
\* diff returns at once: it has issued no prompt and made no write, and the
\* store is as the run found it. (A run that first created the store has
\* asked for that only, and asks and writes nothing after its empty diff.)
C15_EmptyDiffIsSilent ==
    \A t \in Threads : (DiffComputed(t) /\ EmptyDiff(run[t].gate.file)) =>
        /\ run[t].outcome = "noDiff"
        /\ run[t].adds = <<>> /\ run[t].rems = <<>>
        /\ Store = run[t].gate
        /\ Range(run[t].events) \subseteq {"askCreate", "touch"}
        /\ run[t].pre.exists => (run[t].events = <<>> /\ Store = run[t].pre)

\* a first run over a template with a default and a store that holds a
\* value for it: nothing to add, nothing to remove
C15_Witness ==
    \E t \in Threads :
        /\ run[t].outcome = "noDiff"
        /\ run[t].prev = "none"
        /\ run[t].pre.exists
        /\ HoldsValue(tmplFile, "FAST_LLM_MODEL")
        /\ HoldsValue(envFile, "FAST_LLM_MODEL")

\* the positions of an event in a run's history
At(seq, e) == {i \in 1..Len(seq) : seq[i] = e}

\* C16: a run that computes a non-empty diff issues exactly one merge
\* prompt; a key is set or unset, and a value is asked for, only after that
\* prompt was answered with a case-insensitive "y", and such an answer does
\* approve; after the approval one value prompt is issued per addition, in
\* the order of the additions, each followed by the write of its key, and
\* none is issued once the removals have begun.
C16_ApprovalGate ==
    \A t \in Threads : (DiffComputed(t) /\ ~EmptyDiff(run[t].gate.file)) =>
        LET ev == run[t].events
        IN  /\ Count(ev, "askApply") = 1
            /\ Count(ev, "approve") + Count(ev, "decline") <= 1
            /\ \A i \in At(ev, "approve") \cup At(ev, "decline") :
                  i > 1 /\ ev[i - 1] = "askApply"
            /\ \A i \in At(ev, "set") \cup At(ev, "unset") \cup At(ev, "askValue") :
                  \E j \in At(ev, "approve") : j < i
            /\ "approve" \in Range(ev) <=> Affirmative(run[t].apply)
            /\ "decline" \in Range(ev) <=>
                  (run[t].apply # Absent /\ ~Affirmative(run[t].apply))
            /\ Count(ev, "askValue") <= Len(run[t].adds)
            /\ Count(ev, "unset") <= Len(run[t].rems)
            /\ \A i \in At(ev, "set") : ev[i - 1] = "askValue"
            /\ \A i \in At(ev, "askValue") : \A j \in At(ev, "unset") : i < j
            /\ \A i \in 1..Len(run[t].entered) :
                  run[t].entered[i].key = run[t].adds[i].key
            /\ run[t].outcome = "applied" =>
                  /\ Count(ev, "askValue") = Len(run[t].adds)
                  /\ Count(ev, "set") = Len(run[t].adds)
                  /\ Count(ev, "unset") = Len(run[t].rems)

\* a merge of two additions approved with "Y" and applied; a merge of an
\* addition and a removal
C16_Witness ==
    \E t \in Threads :
        /\ run[t].outcome = "applied"
        /\ run[t].apply = <<"Y">>
        /\ Len(run[t].adds) = 2

C16_WitnessRemoval ==
    \E t \in Threads :
        /\ run[t].outcome = "applied"
        /\ run[t].apply = <<"y">>
        /\ Len(run[t].adds) = 1
        /\ Len(run[t].rems) = 1

\* a step in which the thread's __init__ raises: int() in the population of
\* the fields, or a write of the reconciliation __init__ called
Raises(t) ==
    /\ pc[t] \in {"populate", "askValue", "unset"}
    /\ inInit[t]
    /\ pc'[t] = "idle"

\* C17: when __init__ raises, the access fails, its object is dropped and
\* nothing is registered; the thread's next access then constructs again:
\* it starts __init__ on a fresh object and runs a reconciliation pass,
\* which finds the store as the failed access left it.
C17_FailedNotCached ==
    [][\A t \in Threads :
          /\ Raises(t) =>
                /\ instances = 0 /\ instances' = 0
                /\ ret'[t] = -1
                /\ objs'[self[t]] = NoObject
                /\ Store' = Store
          /\ (pc[t] = "idle" /\ ret[t] = -1 /\ nAccess'[t] # nAccess[t]) =>
                /\ pc'[t] = "init"
                /\ self'[t] # 0 /\ objs[self'[t]] = NoObject
                /\ objs'[self'[t]] = NewObject
                /\ Store' = Store
          /\ (pc[t] = "init" /\ pc'[t] # "init") =>
                /\ run'[t].n = run[t].n + 1
                /\ run'[t].pre = Store]_vars

\* a second access after int() raised in the first: its reconciliation pass
\* has run; a second access after a write failed in the first: its pass has
\* found the store the failed merge left and the access has returned
C17_Witness ==
    \E t \in Threads :
        /\ nAccess[t] = 2
        /\ nUpdate = 0
        /\ run[t].n = 2
        /\ run[t].prev = "noDiff"
        /\ ret[t] = -1
        /\ MalformedLimit

C17_WitnessWrite ==
    \E t \in Threads :
        /\ nAccess[t] = 2
        /\ nUpdate = 0
        /\ run[t].n = 2
        /\ run[t].prev = "failed"
        /\ run[t].pre.file # <<>>
        /\ ret[t] > 0
        /\ ret[t] = instances

\* the text C18 has a field read for a key: the value the environment held
\* before the reconciliation, else the template's if it declares the key,
\* else none
Preceding(t, k) ==
    IF run[t].env[k] # Absent THEN run[t].env[k]
    ELSE IF tmplExists THEN ValueIn(tmplFile, k) ELSE Absent

\* the same, the template counting only in a run that read it: one that
\* found the template and found or created the store
TemplateLoaded(t) == run[t].outcome \notin {"none", "noTemplate", "noStore"}

PrecedingLoaded(t, k) ==
    IF run[t].env[k] # Absent THEN run[t].env[k]
    ELSE IF TemplateLoaded(t) THEN ValueIn(tmplFile, k) ELSE Absent

\* the field values __init__ makes of the texts found
ModelOf(text) == PyStr(IF text = Absent THEN GPT35 ELSE text)
LimitOf(text) == PyInt(IF text = Absent THEN FastTokenLimitDefault ELSE IntOf(text))

C18_WitnessDeclined ==
    \E t \in Threads :
        /\ pc[t] = "register"
        /\ run[t].outcome = "declined"
        /\ objs[self[t]].fast_token_limit = PyInt(7)
        /\ objs[self[t]].fast_llm_model = PyStr(GPT35)
====
